---- MODULE Spec2Model ----
(***************************************************************************)
(* Model of lobby-server.js: the lobby registry, the per-lobby match state  *)
(* machine and the 60 Hz simulation tick of the racing game server.         *)
(*                                                                          *)
(* Numbers the code holds as JavaScript doubles (positions, speeds, score,  *)
(* multiplier) are held here as fixed-point integers: the real r is the     *)
(* integer r * Unit.  Products with 0.3, 0.95, 0.1, ... round to the        *)
(* nearest 1/Unit.  Counters (streak, boostTime, comboTimer, playerNum,     *)
(* nearMissCount) and times in milliseconds are plain integers.             *)
(*                                                                          *)
(* A JavaScript object used as a map (lobby.players) keeps its keys in      *)
(* insertion order, and the code iterates it in that order: it is modelled  *)
(* as a sequence of player records, each carrying its key in .id.           *)
(***************************************************************************)
EXTENDS Integers, Sequences, FiniteSets, TLC

VARIABLES
    lobbies,         \* the registry: lobby id -> GameLobby object       (line 27)
    playerSockets,   \* socket id -> lobby id, NoLobby when absent       (line 28)
    connected,       \* the sockets whose connection is still open
    nextLobbyId,     \* the next fresh id uuidv4() hands out
    now,             \* Date.now(), in milliseconds
    emitted,         \* the messages the last handler or tick emitted, in order
    lastOp,          \* the kind of event the last step handled
    room             \* the single-room server: gameState, playerCount, its
                     \* timers and its connections             (lines 697-706)

vars == <<lobbies, playerSockets, connected, nextLobbyId, now, emitted, lastOp, room>>

----------------------------------------------------------------------------
\* Bounds of the model.

\* The sockets that connect.  Socket ids are never reused after a disconnect.
Sockets == {"a", "b", "c"}
\* uuidv4() never repeats: lobby ids are 1, 2, ...  LobbyIds are the ids a
\* client can name in an event, whether handed out or not (a stale or a
\* made-up id).
LobbyIds == {1, 2}
NoLobby == 0
\* The three-socket specification follows the server until Date.now() =
\* MaxNow, the two-lobby specification until PairMaxNow.
MaxNow == 60000
PairMaxNow == 30000

\* Fixed-point unit: 1.00 is held as Unit.
Unit == 10 * 10

----------------------------------------------------------------------------
\* Program constants.

MaxPlayers == 2            \* addPlayer: lobby full at 2 players
GameDuration == 30000      \* startGame: this.gameDuration, milliseconds
TickMs == 17               \* setInterval(..., 1000 / 60): 16.67 ms, held in whole
                           \* milliseconds as Date.now() counts them
StartX == 200              \* addPlayer / restartGame / endGame: x
StartY == 500              \* addPlayer / restartGame / endGame: y
PlayerWidth == 30
PlayerHeight == 60
BaseMaxSpeed == 8
BoostSpeed == 15
BoostTicks == 180
ComboTicks == 300
DecayMs == 3000
MaxMultiplier == 5
ObstacleWidth == 30
ObstacleHeight == 60
ObstacleStartY == -50
PadWidth == 60
PadHeight == 30
PadStartY == -80
PadSpeed == 2
BottomY == 650
CollidedY == 700
SpeedBonusPeriod == 60
NearMissRange == 200
NearMissPoints == 25
PerfectPoints == 100
PerfectThreshold == 2
CollisionPenalty == 50
BoostPoints == 50
SurvivalPoints == 5

----------------------------------------------------------------------------
\* Arithmetic helpers.

Abs(n) == IF n < 0 THEN -n ELSE n
Min(a, b) == IF a < b THEN a ELSE b
Max(a, b) == IF a > b THEN a ELSE b

\* v * num / den, rounded to the nearest integer (the fixed-point image of a
\* double multiplication by the constant num/den).
Times(v, num, den) ==
    IF v * num >= 0 THEN (v * num + den \div 2) \div den
                    ELSE -((-(v * num) + den \div 2) \div den)

\* Math.ceil(n / d) for d > 0.
CeilDiv(n, d) == -((-n) \div d)

----------------------------------------------------------------------------
\* Input vectors.  player.input is whatever the client sent as data.input: a
\* vector {up, down, left, right}, or undefined when the payload has none.
\* Steering (left, right) turns the car by sin/cos of a real angle, which is
\* outside this model: the inputs enumerated keep left = right = false, so the
\* angle stays 0 and the car moves along y only.

NoKeys == [defined |-> TRUE, up |-> FALSE, down |-> FALSE, left |-> FALSE, right |-> FALSE]
Inputs ==
    { [defined |-> TRUE, up |-> u, down |-> d, left |-> FALSE, right |-> FALSE] :
        u \in BOOLEAN, d \in BOOLEAN }
    \cup { [defined |-> FALSE, up |-> FALSE, down |-> FALSE, left |-> FALSE, right |-> FALSE] }

Msg(to, ev, arg) == [to |-> to, ev |-> ev, arg |-> arg]

----------------------------------------------------------------------------
\* GameLobby: players as an insertion-ordered map.

Keys(lobby) == { lobby.players[i].id : i \in 1..Len(lobby.players) }

IndexOf(players, socketId) ==
    IF \E i \in 1..Len(players) : players[i].id = socketId
    THEN CHOOSE i \in 1..Len(players) : players[i].id = socketId
    ELSE 0

\* delete this.players[socketId]
DeleteKey(players, socketId) ==
    SelectSeq(players, LAMBDA p : p.id # socketId)

\* this.players[socketId] = player: an existing key keeps its place, a new
\* key goes last.
SetKey(players, player) ==
    IF IndexOf(players, player.id) # 0
    THEN [players EXCEPT ![IndexOf(players, player.id)] = player]
    ELSE Append(players, player)

\* Object.keys(this.players).forEach(socketId => io.to(socketId).emit(ev))
EmitToPlayers(lobby, ev) ==
    [i \in 1..Len(lobby.players) |-> Msg(lobby.players[i].id, ev, 0)]

NewPlayer(socketId, playerNum, t) ==
    [ id |-> socketId,
      playerNum |-> playerNum,
      x |-> StartX * Unit,
      y |-> StartY * Unit,
      speed |-> 0,
      maxSpeed |-> BaseMaxSpeed,
      angle |-> 0,
      velocityX |-> 0,
      velocityY |-> 0,
      turnSpeed |-> 0,
      boosting |-> FALSE,
      boostTime |-> 0,
      score |-> 0,
      streak |-> 0,
      multiplier |-> Unit,
      perfectCount |-> 0,
      lastObstacleTime |-> t,
      comboTimer |-> 0,
      nearMissCount |-> 0,
      speedBonusTimer |-> 0,
      input |-> NoKeys ]

\* The constructor's fields before it adds the creator (name and createdAt,
\* which no handler or tick reads, are left out).  gameEnded,
\* gameStartTime and gameState.timeRemaining are undefined until startGame:
\* undefined gameEnded is falsy (FALSE), the other two are held as -1.
\* gameLoop is TRUE when it holds a timer handle, FALSE when null; intervals
\* counts the setInterval timers of this lobby that were never cleared.
EmptyLobby(id) ==
    [ id |-> id,
      players |-> <<>>,
      gameStarted |-> FALSE,
      gameEnded |-> FALSE,
      obstacles |-> <<>>,
      boostPads |-> <<>>,
      timeRemaining |-> -1,
      gameStartTime |-> -1,
      gameLoop |-> FALSE,
      intervals |-> 0 ]

\* The three phases of the match state machine.
Waiting(lobby) == ~lobby.gameStarted
Running(lobby) == lobby.gameStarted /\ ~lobby.gameEnded
Finished(lobby) == lobby.gameStarted /\ lobby.gameEnded

\* if (this.gameLoop) { clearInterval(this.gameLoop); this.gameLoop = null; }
StopLoopBuggy(lobby) == [lobby EXCEPT !.gameLoop = FALSE]
StopLoop(lobby) ==
    IF lobby.gameLoop
    THEN [lobby EXCEPT !.intervals = @ - 1, !.gameLoop = FALSE]
    ELSE lobby

\* this.gameLoop = setInterval(...): a new timer; a handle the field held
\* before is overwritten, its timer keeps running.
StartLoop(lobby) ==
    [lobby EXCEPT !.intervals = @ + 1, !.gameLoop = TRUE]

StartGame(lobby, t) ==
    [ lobby |-> StartLoop([lobby EXCEPT !.gameStarted = TRUE,
                                        !.gameStartTime = t,
                                        !.gameEnded = FALSE,
                                        !.obstacles = <<>>,
                                        !.boostPads = <<>>,
                                        !.timeRemaining = 30]),
      out |-> EmitToPlayers(lobby, "gameStart") ]

\* addPlayer's capacity test.
LobbyFullOffByOne(lobby) == Len(lobby.players) > MaxPlayers
LobbyFull(lobby) == Len(lobby.players) >= MaxPlayers

\* addPlayer without its playerSockets.set(socketId, this.id), which the
\* calling action applies when ok.  Seat is the assignment to
\* this.players[socketId], StartIfFull the test that follows it.
Seat(lobby, socketId, t) ==
    [lobby EXCEPT
        !.players = SetKey(@, NewPlayer(socketId, Len(lobby.players) + 1, t))]

StartIfFull(lobby, t) ==
    IF Len(lobby.players) = 2 THEN StartGame(lobby, t)
                              ELSE [lobby |-> lobby, out |-> <<>>]

Accepted(r) == [ok |-> TRUE, lobby |-> r.lobby, out |-> r.out]

AddPlayer(lobby, socketId, t) ==
    IF LobbyFull(lobby)
    THEN [ok |-> FALSE, lobby |-> lobby, out |-> <<>>]
    ELSE Accepted(StartIfFull(Seat(lobby, socketId, t), t))

\* The per-player reset of restartGame.
RestartResetKeepsScore(p) ==
    [p EXCEPT !.x = StartX * Unit, !.y = StartY * Unit, !.speed = 0, !.angle = 0,
              !.velocityX = 0, !.velocityY = 0, !.streak = 0,
              !.multiplier = Unit, !.boosting = FALSE, !.boostTime = 0]
RestartReset(p) ==
    [p EXCEPT !.x = StartX * Unit, !.y = StartY * Unit, !.speed = 0, !.angle = 0,
              !.velocityX = 0, !.velocityY = 0, !.score = 0, !.streak = 0,
              !.multiplier = Unit, !.boosting = FALSE, !.boostTime = 0]

RestartGame(lobby, t) ==
    StartGame([lobby EXCEPT
                  !.players = [i \in 1..Len(@) |-> RestartReset(@[i])]], t)

\* The per-player reset of endGame.
EndResetKeepsScore(p) ==
    [p EXCEPT !.x = StartX * Unit, !.y = StartY * Unit, !.speed = 0, !.angle = 0,
              !.streak = 0, !.multiplier = Unit]
EndReset(p) ==
    [p EXCEPT !.x = StartX * Unit, !.y = StartY * Unit, !.speed = 0, !.angle = 0,
              !.score = 0, !.streak = 0, !.multiplier = Unit]

\* endGame's last loop: returnToLobby to every player.
Returned(lobby) == [lobby |-> lobby, out |-> EmitToPlayers(lobby, "returnToLobby")]

EndGame(lobby) ==
    Returned([StopLoop([lobby EXCEPT !.gameStarted = FALSE, !.gameEnded = FALSE])
                 EXCEPT !.players = [i \in 1..Len(@) |-> EndReset(@[i])]])

\* removePlayer without its playerSockets.delete(socketId), which the calling
\* action applies.  Removed is what follows the delete: in the empty-lobby
\* branch the timer is cleared and the handle is left in the field.
Kept(r) == [shouldDelete |-> FALSE, lobby |-> r.lobby, out |-> r.out]

Removed(lobby) ==
    IF Len(lobby.players) = 0
    THEN [ shouldDelete |-> TRUE,
           lobby |-> IF lobby.gameLoop
                     THEN [lobby EXCEPT !.intervals = @ - 1]
                     ELSE lobby,
           out |-> <<>> ]
    ELSE IF lobby.gameStarted /\ Len(lobby.players) < 2
    THEN Kept(EndGame(lobby))
    ELSE [shouldDelete |-> FALSE, lobby |-> lobby, out |-> <<>>]

RemovePlayer(lobby, socketId) ==
    Removed([lobby EXCEPT !.players = DeleteKey(@, socketId)])

----------------------------------------------------------------------------
\* The simulation tick.  updatePlayer is the composition of its blocks, each
\* an operator on the player.  Speeds, positions, scores and multipliers are
\* fixed-point (Unit is 1.0).

\* Handle boost timing
BoostTiming(p) ==
    IF ~p.boosting THEN p
    ELSE IF p.boostTime - 1 <= 0
    THEN [p EXCEPT !.boostTime = @ - 1, !.boosting = FALSE, !.maxSpeed = BaseMaxSpeed]
    ELSE [p EXCEPT !.boostTime = @ - 1]

\* Player acceleration/deceleration: input.down is tested last and wins.
TargetSpeed(p) ==
    IF p.input.down THEN -((p.maxSpeed * Unit) \div 2)
    ELSE IF p.input.up THEN (IF p.boosting THEN BoostSpeed ELSE p.maxSpeed) * Unit
    ELSE 0

\* Smooth speed transitions
Accelerate(p) ==
    [p EXCEPT !.speed = Times(@ + Times(TargetSpeed(p) - @, 3, 10), 95, 100)]

\* Improved steering
MaxSteer(p) == 4 * Min(Unit, Abs(p.speed) \div 4)

Steer(p) ==
    [p EXCEPT !.turnSpeed =
        IF p.input.left THEN Max(@ - (4 * Unit) \div 10, -MaxSteer(p))
        ELSE IF p.input.right THEN Min(@ + (4 * Unit) \div 10, MaxSteer(p))
        ELSE Times(@, 85, 100)]

\* Apply turning
Turn(p) ==
    [p EXCEPT !.angle =
        @ + Times(Times(p.turnSpeed, 2, 100), Min(Unit, Abs(p.speed) \div 3), Unit)]

\* Physics-based movement and air resistance.  The inputs enumerated never
\* steer, so the angle is 0 and forward = (Math.sin(0), -Math.cos(0)) = (0, -1).
Thrust(p) ==
    [p EXCEPT !.velocityX = Times(@ + 0 * Times(p.speed, 1, 10), 95, 100),
              !.velocityY = Times(@ + (-1) * Times(p.speed, 1, 10), 95, 100)]

\* Update position, keep player on screen
Advance(p) ==
    [p EXCEPT !.x = Max(30 * Unit, Min(370 * Unit, @ + p.velocityX)),
              !.y = Max(50 * Unit, Min(550 * Unit, @ + p.velocityY))]

\* Math.floor(Math.abs(player.speed) * 0.1)
SpeedPointsAtLeastOne(p) == Max(1, Abs(p.speed) \div (10 * Unit))
SpeedPoints(p) == Abs(p.speed) \div (10 * Unit)

\* Update score; speedBonusTimer++.  The timer is only ever compared with
\* SpeedBonusPeriod and is held capped there.
ScoreSpeed(p) ==
    [p EXCEPT !.score = @ + SpeedPoints(p) * p.multiplier,
              !.speedBonusTimer = Min(SpeedBonusPeriod, @ + 1)]

\* The speed bonus event.  From here on the player travels with the events
\* emitted for it.
SpeedBonus(p) ==
    IF p.speedBonusTimer >= SpeedBonusPeriod /\ SpeedPoints(p) > 0
    THEN [ p |-> [p EXCEPT !.speedBonusTimer = 0],
           out |-> <<Msg(p.id, "scoreEvent:speed", 0)>> ]
    ELSE [p |-> p, out |-> <<>>]

\* Update combo timer
ComboTimer(p) ==
    IF p.comboTimer <= 0 THEN p
    ELSE IF p.comboTimer - 1 = 0
    THEN [p EXCEPT !.comboTimer = @ - 1, !.multiplier = Max(Unit, @ - Unit \div 2)]
    ELSE [p EXCEPT !.comboTimer = @ - 1]

\* Streak decay at time t: the multiplier is recomputed from the streak
\* without the Math.min(5, ...) of the awards.
StreakDecay(p, t) ==
    IF t - p.lastObstacleTime <= DecayMs THEN p
    ELSE IF p.streak > 0
    THEN [p EXCEPT !.streak = Max(0, @ - 1),
                   !.multiplier = Unit + Max(0, p.streak - 1) * (Unit \div 5),
                   !.lastObstacleTime = t]
    ELSE [p EXCEPT !.lastObstacleTime = t]

Timers(r, t) == [r EXCEPT !.p = StreakDecay(ComboTimer(@), t)]

\* updatePlayer: nothing at all for a player whose input is undefined.
UpdatePlayer(p, t) ==
    IF ~p.input.defined THEN [p |-> p, out |-> <<>>]
    ELSE Timers(SpeedBonus(ScoreSpeed(Advance(Thrust(Turn(Steer(Accelerate(
             BoostTiming(p)))))))), t)

RECURSIVE FlattenOut(_)
FlattenOut(rs) ==
    IF rs = <<>> THEN <<>> ELSE Head(rs).out \o FlattenOut(Tail(rs))

\* Object.values(this.players).forEach(player => this.updatePlayer(player))
Updated(lobby, rs) ==
    [ lobby |-> [lobby EXCEPT !.players = [i \in 1..Len(rs) |-> rs[i].p]],
      out |-> FlattenOut(rs) ]

UpdatePlayers(lobby, t) ==
    Updated(lobby, [i \in 1..Len(lobby.players) |-> UpdatePlayer(lobby.players[i], t)])

\* id: Date.now() + Math.random().  The i-th object made at time t has the
\* id <<t, i>>: the random parts of one call differ, and so do the times of
\* two calls.
NewId(t, i) == <<t, i>>

\* createObstacles: one obstacle per player, in player order, with the x and
\* the speed Math.random() gave (xs[i], speeds[i], fixed-point).
CreateObstacles(lobby, xs, speeds, t) ==
    [lobby EXCEPT !.obstacles = @ \o
        [i \in 1..Len(lobby.players) |->
            [ id |-> NewId(t, i),
              x |-> xs[i], y |-> ObstacleStartY * Unit, speed |-> speeds[i],
              playerNum |-> lobby.players[i].playerNum,
              nearMissAwarded |-> FALSE ]]]

\* createBoostPads: one pad per player, in player order.
CreateBoostPads(lobby, xs, t) ==
    [lobby EXCEPT !.boostPads = @ \o
        [i \in 1..Len(lobby.players) |->
            [ id |-> NewId(t, i),
              x |-> xs[i], y |-> PadStartY * Unit, speed |-> PadSpeed * Unit,
              used |-> FALSE,
              playerNum |-> lobby.players[i].playerNum ]]]

\* Object.values(this.players).find(p => p.playerNum === n): the index of
\* the first such player, 0 when there is none.
FindSeat(players, n) ==
    IF \E i \in 1..Len(players) : players[i].playerNum = n
    THEN CHOOSE i \in 1..Len(players) :
            /\ players[i].playerNum = n
            /\ \A j \in 1..(i - 1) : players[j].playerNum # n
    ELSE 0

\* The award of updateObstacles to the player an obstacle passed.
PassObstacle(p, t) ==
    [p EXCEPT !.score = @ + (SurvivalPoints + p.streak) * p.multiplier,
              !.streak = @ + 1,
              !.multiplier = Min(MaxMultiplier * Unit, Unit + (p.streak + 1) * (Unit \div 5)),
              !.lastObstacleTime = t]

\* if (player) { ... } for the player at index i, 0 when find gave none.
AwardPass(players, i, t) ==
    IF i # 0 THEN [players EXCEPT ![i] = PassObstacle(@, t)] ELSE players

\* obstacle.y += obstacle.speed + 3
MoveObstacle(o) == [o EXCEPT !.y = @ + o.speed + 3 * Unit]

\* updateObstacles: the filter visits the obstacles in list order, carrying
\* the players and the obstacles kept so far; FilterStep is the callback on
\* the obstacle o, already moved.
RECURSIVE FilterObstacles(_, _, _, _)
FilterStep(o, rest, players, kept, t) ==
    IF o.y > BottomY * Unit
    THEN FilterObstacles(rest, AwardPass(players, FindSeat(players, o.playerNum), t),
                         kept, t)
    ELSE FilterObstacles(rest, players, Append(kept, o), t)

FilterObstacles(obs, players, kept, t) ==
    IF obs = <<>> THEN [players |-> players, obstacles |-> kept]
    ELSE FilterStep(MoveObstacle(Head(obs)), Tail(obs), players, kept, t)

Filtered(lobby, r) ==
    [lobby EXCEPT !.players = r.players, !.obstacles = r.obstacles]

UpdateObstacles(lobby, t) ==
    Filtered(lobby, FilterObstacles(lobby.obstacles, lobby.players, <<>>, t))

MovePad(pad) == [pad EXCEPT !.y = @ + pad.speed + 3 * Unit]

UpdateBoostPads(lobby) ==
    [lobby EXCEPT !.boostPads =
        SelectSeq([i \in 1..Len(lobby.boostPads) |-> MovePad(lobby.boostPads[i])],
                  LAMBDA pad : pad.y <= BottomY * Unit)]

\* Axis-aligned overlap of the player's box with a box at (bx, by) of size
\* (bw, bh), all fixed-point.
Overlaps(p, bx, by, bw, bh) ==
    /\ p.x < bx + bw
    /\ p.x + PlayerWidth * Unit > bx
    /\ p.y < by + bh
    /\ p.y + PlayerHeight * Unit > by

\* distance < 200 between the centres, the centres dx and dy apart: the
\* squares are compared, and taken only when both legs are below the range
\* (a longer leg alone puts the distance at or above it).
WithinNearMissRange(dx, dy) ==
    /\ Abs(dx) < NearMissRange * Unit
    /\ Abs(dy) < NearMissRange * Unit
    /\ dx * dx + dy * dy < (NearMissRange * Unit) * (NearMissRange * Unit)

\* The near-miss test of checkCollisions.
NearMiss(p, o) ==
    /\ WithinNearMissRange(
          p.x + (PlayerWidth * Unit) \div 2 - (o.x + (ObstacleWidth * Unit) \div 2),
          p.y + (PlayerHeight * Unit) \div 2 - (o.y + (ObstacleHeight * Unit) \div 2))
    /\ o.y > p.y - NearMissRange * Unit
    /\ o.y < p.y + NearMissRange * Unit

\* The direct-collision branch.
CrashFlatPenalty(p, o) ==
    [ p |-> [p EXCEPT !.speed = Times(@, 3, 10),
                      !.velocityX = Times(@, -5, 10),
                      !.velocityY = Times(@, -5, 10),
                      !.score = @ - CollisionPenalty * Unit,
                      !.streak = 0,
                      !.multiplier = Unit,
                      !.nearMissCount = 0],
      o |-> [o EXCEPT !.y = CollidedY * Unit],
      out |-> <<>> ]
Crash(p, o) ==
    [ p |-> [p EXCEPT !.speed = Times(@, 3, 10),
                      !.velocityX = Times(@, -5, 10),
                      !.velocityY = Times(@, -5, 10),
                      !.score = @ - CollisionPenalty * Unit - p.streak * 5 * Unit,
                      !.streak = 0,
                      !.multiplier = Unit,
                      !.nearMissCount = 0],
      o |-> [o EXCEPT !.y = CollidedY * Unit],
      out |-> <<>> ]

\* The near-miss branch; perfect is nearMissCount >= 2 after the increment.
AwardNearMissUnmarked(p, o, perfect) ==
    [ p |-> [p EXCEPT
               !.score = @ + NearMissPoints * p.multiplier
                           + (IF perfect THEN PerfectPoints * p.multiplier ELSE 0),
               !.nearMissCount = IF perfect THEN 0 ELSE @ + 1,
               !.perfectCount = IF perfect THEN @ + 1 ELSE @],
      o |-> o,
      out |-> <<Msg(p.id, "scoreEvent:nearMiss", 0)>>
              \o (IF perfect THEN <<Msg(p.id, "scoreEvent:perfect", 0)>> ELSE <<>>) ]
AwardNearMiss(p, o, perfect) ==
    [ p |-> [p EXCEPT
               !.score = @ + NearMissPoints * p.multiplier
                           + (IF perfect THEN PerfectPoints * p.multiplier ELSE 0),
               !.nearMissCount = IF perfect THEN 0 ELSE @ + 1,
               !.perfectCount = IF perfect THEN @ + 1 ELSE @],
      o |-> [o EXCEPT !.nearMissAwarded = TRUE],
      out |-> <<Msg(p.id, "scoreEvent:nearMiss", 0)>>
              \o (IF perfect THEN <<Msg(p.id, "scoreEvent:perfect", 0)>> ELSE <<>>) ]

\* checkCollisions, one player against one obstacle.  Returns the player, the
\* obstacle and the events emitted.
HitObstacle(p, o) ==
    IF o.playerNum # p.playerNum THEN [p |-> p, o |-> o, out |-> <<>>]
    ELSE IF Overlaps(p, o.x, o.y, ObstacleWidth * Unit, ObstacleHeight * Unit)
    THEN Crash(p, o)
    ELSE IF NearMiss(p, o) /\ ~o.nearMissAwarded
    THEN AwardNearMiss(p, o, p.nearMissCount + 1 >= PerfectThreshold)
    ELSE [p |-> p, o |-> o, out |-> <<>>]

\* checkCollisions, one player against one boost pad.
HitPad(p, pad, t) ==
    IF /\ pad.playerNum = p.playerNum
       /\ ~pad.used
       /\ Overlaps(p, pad.x, pad.y, PadWidth * Unit, PadHeight * Unit)
    THEN [ p |-> [p EXCEPT !.boosting = TRUE,
                           !.boostTime = BoostTicks,
                           !.maxSpeed = BoostSpeed,
                           !.score = @ + (BoostPoints + p.streak * 10) * p.multiplier,
                           !.streak = @ + 1,
                           !.multiplier = Min(MaxMultiplier * Unit,
                                              Unit + (p.streak + 1) * (Unit \div 5)),
                           !.comboTimer = ComboTicks,
                           !.lastObstacleTime = t],
           pad |-> [pad EXCEPT !.used = TRUE] ]
    ELSE [p |-> p, pad |-> pad]

\* The loops of checkCollisions carry st: the lobby and the events emitted so
\* far.  AfterObstacle and AfterPad write back what player i and obstacle or
\* pad j became.
AfterObstacle(st, i, j, h) ==
    [ lobby |-> [st.lobby EXCEPT !.players[i] = h.p, !.obstacles[j] = h.o],
      out |-> st.out \o h.out ]

AfterPad(st, i, j, h) ==
    [st EXCEPT !.lobby.players[i] = h.p, !.lobby.boostPads[j] = h.pad]

\* this.gameState.obstacles.forEach(...) for player i, from obstacle j on.
RECURSIVE CollideObstacles(_, _, _)
CollideObstacles(st, i, j) ==
    IF j > Len(st.lobby.obstacles) THEN st
    ELSE CollideObstacles(
             AfterObstacle(st, i, j,
                 HitObstacle(st.lobby.players[i], st.lobby.obstacles[j])),
             i, j + 1)

\* this.gameState.boostPads.forEach(...) for player i, from pad j on.
RECURSIVE CollidePads(_, _, _, _)
CollidePads(st, i, j, t) ==
    IF j > Len(st.lobby.boostPads) THEN st
    ELSE CollidePads(
             AfterPad(st, i, j, HitPad(st.lobby.players[i], st.lobby.boostPads[j], t)),
             i, j + 1, t)

\* Object.values(this.players).forEach(...), from player i on.
RECURSIVE CollidePlayers(_, _, _)
CollidePlayers(st, i, t) ==
    IF i > Len(st.lobby.players) THEN st
    ELSE CollidePlayers(CollidePads(CollideObstacles(st, i, 1), i, 1, t), i + 1, t)

CheckCollisions(lobby, t) == CollidePlayers([lobby |-> lobby, out |-> <<>>], 1, t)

\* The comparator of playerArray.sort((a, b) => b.score - a.score).
Compare(a, b) == b.score - a.score

\* Array.prototype.sort is stable: a, ahead of p in the array, stays ahead
\* unless the comparator puts it behind.
StaysAheadUnstable(a, p) == Compare(a, p) < 0
StaysAhead(a, p) == Compare(a, p) <= 0

\* The sort, as insertion into a sorted prefix.
RECURSIVE InsertByScore(_, _)
InsertByScore(sorted, p) ==
    IF sorted = <<>> THEN <<p>>
    ELSE IF StaysAhead(Head(sorted), p)
    THEN <<Head(sorted)>> \o InsertByScore(Tail(sorted), p)
    ELSE <<p>> \o sorted

RECURSIVE SortByScore(_)
SortByScore(players) ==
    IF players = <<>> THEN <<>>
    ELSE InsertByScore(SortByScore(SubSeq(players, 1, Len(players) - 1)),
                       players[Len(players)])

\* One entry of gameResults: { name, playerNum, score: Math.floor(score) }.
\* Names are whatever the clients sent; the model names a player by its
\* socket id.
Result(p) == [name |-> p.id, playerNum |-> p.playerNum, score |-> p.score \div Unit]

\* winner: null
NoWinner == [name |-> "null", playerNum |-> 0, score |-> 0]

\* const winner = playerArray[0]; winner ? {...} : null
Winner(playerArray) ==
    IF playerArray = <<>> THEN NoWinner ELSE Result(playerArray[1])

\* gameResults, without its constant gameTime.
GameResults(playerArray) ==
    [ winner |-> Winner(playerArray),
      players |-> [i \in 1..Len(playerArray) |-> Result(playerArray[i])] ]

\* finishGame
FinishGame(lobby) ==
    [ lobby |-> StopLoop([lobby EXCEPT !.gameEnded = TRUE]),
      out |-> [i \in 1..Len(lobby.players) |->
                  Msg(lobby.players[i].id, "gameFinished",
                      GameResults(SortByScore(lobby.players)))] ]

\* The outcome of the Math.random() calls of one updateGame: whether the
\* obstacle draw and the pad draw fell below their thresholds, and the x and
\* speed drawn for the obstacle and the pad of the i-th player.
Rng(obstacle, ox, os, pad, px) ==
    [obstacle |-> obstacle, ox |-> ox, os |-> os, pad |-> pad, px |-> px]

\* this.gameState.timeRemaining = timeRemaining, when the match has not ended.
TimeRemainingFloor(lobby, t) ==
    Max(0, (GameDuration - (t - lobby.gameStartTime)) \div 1000)
TimeRemaining(lobby, t) ==
    Max(0, CeilDiv(GameDuration - (t - lobby.gameStartTime), 1000))

Timed(lobby, t) ==
    IF lobby.gameEnded THEN lobby
    ELSE [lobby EXCEPT !.timeRemaining = TimeRemaining(lobby, t)]

\* if (Math.random() < 0.01) createObstacles(); and the same for the pads.
Spawn(lobby, r, t) ==
    IF r.obstacle /\ r.pad
    THEN CreateBoostPads(CreateObstacles(lobby, r.ox, r.os, t), r.px, t)
    ELSE IF r.obstacle THEN CreateObstacles(lobby, r.ox, r.os, t)
    ELSE IF r.pad THEN CreateBoostPads(lobby, r.px, t)
    ELSE lobby

\* The events of updatePlayer come before those of checkCollisions.
After(out, c) == [c EXCEPT !.out = out \o @]

\* updateGame past its time check: u is what updating the players gave.
Simulate(u, t, r) ==
    After(u.out,
          CheckCollisions(UpdateBoostPads(UpdateObstacles(Spawn(u.lobby, r, t), t)), t))

\* updateGame at time t with the random draws r.
Checked(timed, t, r) ==
    IF ~timed.gameEnded /\ timed.timeRemaining <= 0
    THEN FinishGame(timed)
    ELSE Simulate(UpdatePlayers(timed, t), t, r)

UpdateGame(lobby, t, r) == Checked(Timed(lobby, t), t, r)

\* broadcastGameState
BroadcastGameState(lobby) == EmitToPlayers(lobby, "gameState")

\* The setInterval callback of startGame: updateGame, then broadcastGameState.
Broadcast(u) == [lobby |-> u.lobby, out |-> u.out \o BroadcastGameState(u.lobby)]

IntervalCallback(lobby, t, r) == Broadcast(UpdateGame(lobby, t, r))

----------------------------------------------------------------------------
\* The socket handlers.  Each is one action: Node runs a handler, and a timer
\* callback, to completion before the next.

\* The registry with lobby id dropped.
Without(id) == [k \in DOMAIN lobbies \ {id} |-> lobbies[k]]
\* The registry with lobby id set to lobby.
With(id, lobby) == [k \in DOMAIN lobbies \cup {id} |-> IF k = id THEN lobby ELSE lobbies[k]]

BroadcastLobbyUpdates == <<Msg("all", "lobbiesUpdate", 0)>>

\* socket.on('createLobby')
CreateLobby(s, ids) ==
    /\ s \in connected
    /\ nextLobbyId \in ids
    /\ \E a \in {AddPlayer(EmptyLobby(nextLobbyId), s, now)} :
          /\ lobbies' = With(nextLobbyId, a.lobby)
          /\ emitted' = a.out \o <<Msg(s, "joinedLobby", 1)>> \o BroadcastLobbyUpdates
    /\ playerSockets' = [playerSockets EXCEPT ![s] = nextLobbyId]
    /\ nextLobbyId' = nextLobbyId + 1
    /\ lastOp' = "createLobby"
    /\ UNCHANGED <<connected, now, room>>

\* A join turned away: the answer to the sender; return.
RejectedDropsRoute(s, ev) ==
    /\ emitted' = <<Msg(s, ev, 0)>>
    /\ playerSockets' = [playerSockets EXCEPT ![s] = NoLobby]
    /\ UNCHANGED lobbies
Rejected(s, ev) ==
    /\ emitted' = <<Msg(s, ev, 0)>>
    /\ UNCHANGED <<lobbies, playerSockets>>

\* socket.on('joinLobby')
JoinLobby(s, lobbyId) ==
    /\ s \in connected
    /\ IF lobbyId \notin DOMAIN lobbies
       THEN Rejected(s, "lobbyNotFound")
       ELSE \E a \in {AddPlayer(lobbies[lobbyId], s, now)} :
               IF a.ok
               THEN /\ lobbies' = With(lobbyId, a.lobby)
                    /\ playerSockets' = [playerSockets EXCEPT ![s] = lobbyId]
                    /\ emitted' = a.out
                                  \o <<Msg(s, "joinedLobby", Len(a.lobby.players))>>
                                  \o BroadcastLobbyUpdates
               ELSE Rejected(s, "lobbyFull")
    /\ lastOp' = "joinLobby"
    /\ UNCHANGED <<connected, nextLobbyId, now, room>>

\* lobbies.delete(lobbyId) when removePlayer said so.
AfterRemoveKeepsEmpty(lobbyId, r) == With(lobbyId, r.lobby)
AfterRemove(lobbyId, r) ==
    IF r.shouldDelete THEN Without(lobbyId) ELSE With(lobbyId, r.lobby)

\* socket.on('leaveLobby')
LeaveLobby(s, lobbyId) ==
    /\ s \in connected
    /\ IF lobbyId \in DOMAIN lobbies
       THEN \E r \in {RemovePlayer(lobbies[lobbyId], s)} :
               /\ lobbies' = AfterRemove(lobbyId, r)
               /\ playerSockets' = [playerSockets EXCEPT ![s] = NoLobby]
               /\ emitted' = r.out \o BroadcastLobbyUpdates
       ELSE /\ emitted' = <<>>
            /\ UNCHANGED <<lobbies, playerSockets>>
    /\ lastOp' = "leaveLobby"
    /\ UNCHANGED <<connected, nextLobbyId, now, room>>

\* socket.on('playerInput')
PlayerInput(s, input) ==
    /\ s \in connected
    /\ lobbies' =
         IF playerSockets[s] \in DOMAIN lobbies /\ s \in Keys(lobbies[playerSockets[s]])
         THEN [lobbies EXCEPT
                 ![playerSockets[s]].players[IndexOf(lobbies[playerSockets[s]].players, s)].input
                     = input]
         ELSE lobbies
    /\ lastOp' = "playerInput"
    /\ emitted' = <<>>
    /\ UNCHANGED <<playerSockets, connected, nextLobbyId, now, room>>

\* if (lobby && lobby.players[socket.id] && lobby.gameEnded)
MayRestartUnseated(s, lobbyId) ==
    /\ lobbyId \in DOMAIN lobbies
    /\ lobbies[lobbyId].gameEnded
MayRestart(s, lobbyId) ==
    /\ lobbyId \in DOMAIN lobbies
    /\ s \in Keys(lobbies[lobbyId])
    /\ lobbies[lobbyId].gameEnded

\* socket.on('restartGame')
RestartGameRequest(s, lobbyId) ==
    /\ s \in connected
    /\ IF MayRestart(s, lobbyId)
       THEN \E r \in {RestartGame(lobbies[lobbyId], now)} :
               /\ lobbies' = With(lobbyId, r.lobby)
               /\ emitted' = r.out
       ELSE /\ emitted' = <<>>
            /\ UNCHANGED lobbies
    /\ lastOp' = "restartGame"
    /\ UNCHANGED <<playerSockets, connected, nextLobbyId, now, room>>

\* socket.on('backToLobbyFromResults')
BackToLobbyFromResults(s, lobbyId) ==
    /\ s \in connected
    /\ IF lobbyId \in DOMAIN lobbies /\ s \in Keys(lobbies[lobbyId])
       THEN \E e \in {EndGame(lobbies[lobbyId])} :
               /\ lobbies' = With(lobbyId, e.lobby)
               /\ emitted' = e.out
       ELSE /\ emitted' = <<>>
            /\ UNCHANGED lobbies
    /\ lastOp' = "backToLobbyFromResults"
    /\ UNCHANGED <<playerSockets, connected, nextLobbyId, now, room>>

\* socket.on('disconnect').  The socket is gone afterwards: it sends no
\* further event.
Disconnect(s) ==
    /\ s \in connected
    /\ connected' = connected \ {s}
    /\ IF playerSockets[s] # NoLobby /\ playerSockets[s] \in DOMAIN lobbies
       THEN \E r \in {RemovePlayer(lobbies[playerSockets[s]], s)} :
               /\ lobbies' = AfterRemove(playerSockets[s], r)
               /\ playerSockets' = [playerSockets EXCEPT ![s] = NoLobby]
               /\ emitted' = r.out \o BroadcastLobbyUpdates
       ELSE /\ emitted' = <<>>
            /\ UNCHANGED <<lobbies, playerSockets>>
    /\ lastOp' = "disconnect"
    /\ UNCHANGED <<nextLobbyId, now, room>>

\* One firing of a lobby's interval timer, d milliseconds after the previous
\* step, with the random draws r.
Tick(lobbyId, d, r) ==
    /\ lobbyId \in DOMAIN lobbies
    /\ lobbies[lobbyId].intervals > 0
    /\ now' = now + d
    /\ \E c \in {IntervalCallback(lobbies[lobbyId], now + d, r)} :
          /\ lobbies' = With(lobbyId, c.lobby)
          /\ emitted' = c.out
    /\ lastOp' = "tick"
    /\ UNCHANGED <<playerSockets, connected, nextLobbyId, room>>

----------------------------------------------------------------------------
\* The single-room server (the second server of the file): one gameState for
\* all sockets, and playerCount beside it.  Its player records are held by
\* their key and seat number, gameState.players as an insertion-ordered map
\* like a lobby's; its simulation (updateGame, a copy of the lobby's) adds
\* and removes no player and is not followed.  room.open are the sockets
\* connected to it, room.closed those that have disconnected; room.intervals
\* counts the setInterval timers that were never cleared.

\* The sockets that connect to the single-room server.
RoomSockets == {"w", "x", "y", "z"}

\* MAX_PLAYERS
RoomMaxPlayers == 2

RoomInit ==
    [ players |-> <<>>,
      playerCount |-> 0,
      gameStarted |-> FALSE,
      intervals |-> 0,
      open |-> {},
      closed |-> {} ]

\* The lobby server's variables, which the single-room server does not have.
lobbyVars == <<lobbies, playerSockets, connected, nextLobbyId, now>>

\* io.on('connection'): the handlers are registered, nothing else changes.
RoomConnect(s) ==
    /\ s \notin room.open \cup room.closed
    /\ room' = [room EXCEPT !.open = @ \cup {s}]
    /\ emitted' = <<>>
    /\ lastOp' = "connection"
    /\ UNCHANGED lobbyVars

\* joinGame's capacity test.
RoomFull == room.playerCount >= RoomMaxPlayers

\* joinGame past the capacity test: count is playerCount after the ++.
Joined(s, count) ==
    [room EXCEPT
        !.playerCount = count,
        !.players = SetKey(@, [id |-> s, playerNum |-> count]),
        !.gameStarted = IF count = RoomMaxPlayers THEN TRUE ELSE @,
        !.intervals = IF count = RoomMaxPlayers THEN @ + 1 ELSE @]

\* socket.on('joinGame')
JoinGame(s) ==
    /\ s \in room.open
    /\ IF RoomFull
       THEN /\ emitted' = <<Msg(s, "gameFull", 0)>>
            /\ UNCHANGED room
       ELSE /\ room' = Joined(s, room.playerCount + 1)
            /\ emitted' = <<Msg(s, "playerAssigned", room.playerCount + 1)>>
                           \o (IF room.playerCount + 1 = RoomMaxPlayers
                               THEN <<Msg("all", "gameStart", 0)>> ELSE <<>>)
                           \o <<Msg("all", "gameState", 0)>>
    /\ lastOp' = "joinGame"
    /\ UNCHANGED lobbyVars

\* socket.on('disconnect') of the single-room server: the key is deleted and
\* playerCount decremented whether or not the socket had joined.
RoomDisconnect(s) ==
    /\ s \in room.open
    /\ room' = [room EXCEPT
                  !.open = @ \ {s},
                  !.closed = @ \cup {s},
                  !.players = DeleteKey(@, s),
                  !.playerCount = @ - 1,
                  !.gameStarted = IF room.playerCount - 1 = 0 THEN FALSE ELSE @]
    /\ emitted' = <<Msg("all", "gameState", 0)>>
    /\ lastOp' = "roomDisconnect"
    /\ UNCHANGED lobbyVars

\* One firing of a timer of startGameLoop: it clears itself when the game
\* is not started or playerCount is 0, and updates and broadcasts otherwise.
RoomTick ==
    /\ room.intervals > 0
    /\ IF ~room.gameStarted \/ room.playerCount = 0
       THEN /\ room' = [room EXCEPT !.intervals = @ - 1]
            /\ emitted' = <<>>
       ELSE /\ emitted' = <<Msg("all", "gameState", 0)>>
            /\ UNCHANGED room
    /\ lastOp' = "roomTick"
    /\ UNCHANGED lobbyVars

----------------------------------------------------------------------------
Init ==
    /\ room = RoomInit
    /\ lobbies = <<>>
    /\ playerSockets = [s \in Sockets |-> NoLobby]
    /\ connected = Sockets
    /\ nextLobbyId = 1
    /\ now = 0
    /\ emitted = <<>>
    /\ lastOp = "init"

----------------------------------------------------------------------------
\* The registry specifications: every handler, from any of the sockets S,
\* naming any lobby id, interleaved with the timers of the running lobbies;
\* createLobby hands out the ids in `ids`.  Their timer callbacks arrive a
\* whole match late, so every tick they take is the one that finishes the
\* match; the simulation specifications have the ticks of a running match.

QuietRng == Rng(FALSE, <<>>, <<>>, FALSE, <<>>)

UpKeys == [defined |-> TRUE, up |-> TRUE, down |-> FALSE, left |-> FALSE, right |-> FALSE]
NoInput == [defined |-> FALSE, up |-> FALSE, down |-> FALSE, left |-> FALSE, right |-> FALSE]

\* The input vectors the registry specifications send.
RegistryInputs == {UpKeys}
PairInputs == {NoKeys}

\* A timer callback that arrives GameDuration late, not after `horizon`.
LateTick(lobbyId, horizon) ==
    /\ now + GameDuration <= horizon
    /\ Tick(lobbyId, GameDuration, QuietRng)

Registry(S, ids, inputs, horizon) ==
    \/ \E s \in S : CreateLobby(s, ids)
    \/ \E s \in S, id \in LobbyIds : JoinLobby(s, id)
    \/ \E s \in S, id \in LobbyIds : LeaveLobby(s, id)
    \/ \E s \in S, input \in inputs : PlayerInput(s, input)
    \/ \E s \in S, id \in LobbyIds : RestartGameRequest(s, id)
    \/ \E s \in S, id \in LobbyIds : BackToLobbyFromResults(s, id)
    \/ \E s \in S : Disconnect(s)
    \/ \E id \in DOMAIN lobbies : LateTick(id, horizon)

\* Three sockets and one lobby: a third socket meets a full lobby, a seat is
\* left and taken again.
Next == Registry(Sockets, {1}, RegistryInputs, MaxNow)

Spec == Init /\ [][Next]_vars

\* Two sockets and two lobbies: a socket meets a lobby it is not seated in.
PairNext == Registry({"a", "b"}, {1, 2}, PairInputs, PairMaxNow)

PairSpec == Init /\ [][PairNext]_vars

----------------------------------------------------------------------------
\* The match specification: two sockets fill lobby 1 and choose their keys
\* before the first tick; the first SimSpawnTicks ticks of the match may draw
\* obstacles and pads, SimTicks ticks of TickMs follow at most, and a late
\* tick finishes the match at any point; a finished match is restarted.

SimTicks == 120
SimSpawnTicks == 1

\* The draws of a spawning tick: an obstacle straight ahead of the start
\* position for the first player and one a lane to the left for the second,
\* a pad straight ahead of both.
SimRngs ==
    { Rng(o, <<200 * Unit, 100 * Unit>>, <<4 * Unit, 4 * Unit>>,
          p, <<200 * Unit, 200 * Unit>>) : o \in BOOLEAN, p \in BOOLEAN }

SimInput(s) ==
    /\ now = 0
    /\ \E input \in {UpKeys, NoInput} : PlayerInput(s, input)

SimTick(lobbyId) ==
    /\ now + TickMs <= SimTicks * TickMs
    /\ \E r \in (IF now < SimSpawnTicks * TickMs THEN SimRngs ELSE {QuietRng}) :
          Tick(lobbyId, TickMs, r)

SimNext ==
    \/ \E s \in {"a", "b"} : CreateLobby(s, {1})
    \/ \E s \in {"a", "b"} : JoinLobby(s, 1)
    \/ \E s \in {"a", "b"} : SimInput(s)
    \/ \E s \in {"a", "b"} : RestartGameRequest(s, 1)
    \/ \E id \in DOMAIN lobbies : SimTick(id)
    \/ \E id \in DOMAIN lobbies : LateTick(id, MaxNow)

SimSpec == Init /\ [][SimNext]_vars

----------------------------------------------------------------------------
\* The burst specification: two sockets fill lobby 1 and touch no key; the
\* obstacle draw succeeds on each of the first ticks of the match, for
\* BurstLen ticks at most, and on none after; the match is followed for
\* BurstTicks ticks of TickMs.  The obstacles come down the left edge, clear
\* of both cars.

BurstLen == 22
BurstTicks == 300

BurstRng == Rng(TRUE, <<40 * Unit, 40 * Unit>>, <<4 * Unit, 4 * Unit>>, FALSE, <<>>)

\* The obstacle draw has succeeded on every tick of the match so far.
Bursting(lobby) ==
    /\ Len(lobby.obstacles) = 2 * ((now - lobby.gameStartTime) \div TickMs)
    /\ Len(lobby.obstacles) < 2 * BurstLen

BurstTick(lobbyId) ==
    /\ now + TickMs <= BurstTicks * TickMs
    /\ \E r \in (IF Bursting(lobbies[lobbyId]) THEN {BurstRng, QuietRng}
                                                ELSE {QuietRng}) :
          Tick(lobbyId, TickMs, r)

BurstNext ==
    \/ CreateLobby("a", {1})
    \/ JoinLobby("b", 1)
    \/ \E id \in DOMAIN lobbies : BurstTick(id)

BurstSpec == Init /\ [][BurstNext]_vars

----------------------------------------------------------------------------
\* The abort specification: the match specification with shorter matches,
\* AbortTicks ticks of TickMs at most, in which a seated socket leaves or
\* disconnects at any point, while the match runs or after a late tick has
\* finished it.  Sockets join before the first tick only.

AbortTicks == 60

AbortJoin(s) ==
    /\ now = 0
    /\ JoinLobby(s, 1)

AbortTick(lobbyId) ==
    /\ now + TickMs <= AbortTicks * TickMs
    /\ \E r \in (IF now < SimSpawnTicks * TickMs THEN SimRngs ELSE {QuietRng}) :
          Tick(lobbyId, TickMs, r)

AbortNext ==
    \/ \E s \in {"a", "b"} : CreateLobby(s, {1})
    \/ \E s \in {"a", "b"} : AbortJoin(s)
    \/ \E s \in {"a", "b"} : SimInput(s)
    \/ \E s \in {"a", "b"} : LeaveLobby(s, 1)
    \/ \E s \in {"a", "b"} : Disconnect(s)
    \/ \E id \in DOMAIN lobbies : AbortTick(id)
    \/ \E id \in DOMAIN lobbies : LateTick(id, MaxNow)

AbortSpec == Init /\ [][AbortNext]_vars

----------------------------------------------------------------------------
\* The clock specification: two sockets fill lobby 1 and touch no key, no
\* obstacle or pad is drawn, and the timer fires on time through a whole
\* match and through the match a restartGame starts after it, until
\* Date.now() = ClockMaxNow.  1000 / 60 ms is no whole number of
\* milliseconds: each of the first ClockJitterTicks ticks of a match comes
\* TickMs - 1 or TickMs after the one before, every later one TickMs after.

ClockJitterTicks == 5
ClockMaxNow == 60100

ClockTick(lobbyId) ==
    \E d \in (IF now - lobbies[lobbyId].gameStartTime < ClockJitterTicks * (TickMs - 1)
              THEN {TickMs - 1, TickMs} ELSE {TickMs}) :
        /\ now + d <= ClockMaxNow
        /\ Tick(lobbyId, d, QuietRng)

ClockNext ==
    \/ CreateLobby("a", {1})
    \/ JoinLobby("b", 1)
    \/ \E s \in {"a", "b"} : RestartGameRequest(s, 1)
    \/ \E id \in DOMAIN lobbies : ClockTick(id)

ClockSpec == Init /\ [][ClockNext]_vars

----------------------------------------------------------------------------
\* The crash specification: two sockets fill lobby 1 and choose their keys
\* before the first tick; the first tick may draw a pad straight ahead of
\* both players, the tick CrashSpawnTick may draw an obstacle straight ahead
\* of both, which reaches a player after the pad has; CrashTicks ticks of
\* TickMs follow at most, and a late tick finishes the match at any point.

CrashSpawnTick == 60
CrashTicks == 150

CrashRngs ==
    IF now = 0
    THEN {QuietRng, Rng(FALSE, <<>>, <<>>, TRUE, <<200 * Unit, 200 * Unit>>)}
    ELSE IF now = (CrashSpawnTick - 1) * TickMs
    THEN {QuietRng, Rng(TRUE, <<200 * Unit, 200 * Unit>>, <<4 * Unit, 4 * Unit>>,
                        FALSE, <<>>)}
    ELSE {QuietRng}

CrashInput(s) ==
    /\ now = 0
    /\ \E input \in {UpKeys, NoKeys} : PlayerInput(s, input)

CrashTick(lobbyId) ==
    /\ now + TickMs <= CrashTicks * TickMs
    /\ \E r \in CrashRngs : Tick(lobbyId, TickMs, r)

CrashNext ==
    \/ CreateLobby("a", {1})
    \/ JoinLobby("b", 1)
    \/ \E s \in {"a", "b"} : CrashInput(s)
    \/ \E id \in DOMAIN lobbies : CrashTick(id)
    \/ \E id \in DOMAIN lobbies : LateTick(id, MaxNow)

CrashSpec == Init /\ [][CrashNext]_vars

----------------------------------------------------------------------------
\* The idle specification: two sockets fill lobby 1 and send no input; the
\* timer fires every TickMs through the whole match.  The obstacle and pad
\* draws may succeed on one tick, the tick IdleSpawnTick: late enough that
\* what it draws is still in the lists when the match finishes, early
\* enough that the obstacles come within the near-miss range before.

IdleSpawnTick == 1700
IdleMaxNow == 30100

IdleTick(lobbyId) ==
    /\ now + TickMs <= IdleMaxNow
    /\ \E r \in (IF now = (IdleSpawnTick - 1) * TickMs THEN SimRngs ELSE {QuietRng}) :
          Tick(lobbyId, TickMs, r)

IdleNext ==
    \/ CreateLobby("a", {1})
    \/ JoinLobby("b", 1)
    \/ \E id \in DOMAIN lobbies : IdleTick(id)

IdleSpec == Init /\ [][IdleNext]_vars

----------------------------------------------------------------------------
\* The hold specification: two sockets fill lobby 1, either may press up
\* before the first tick and holds it from then on; no obstacle or pad is
\* drawn, and the match is followed for HoldTicks ticks of TickMs.

HoldTicks == 600

HoldInput(s) ==
    /\ now = 0
    /\ PlayerInput(s, UpKeys)

HoldTick(lobbyId) ==
    /\ now + TickMs <= HoldTicks * TickMs
    /\ Tick(lobbyId, TickMs, QuietRng)

HoldNext ==
    \/ CreateLobby("a", {1})
    \/ JoinLobby("b", 1)
    \/ \E s \in {"a", "b"} : HoldInput(s)
    \/ \E id \in DOMAIN lobbies : HoldTick(id)

HoldSpec == Init /\ [][HoldNext]_vars

----------------------------------------------------------------------------
\* The room specification: the sockets of the single-room server connect,
\* send joinGame any number of times and disconnect, in any order, between
\* the firings of its timers.

RoomNext ==
    \/ \E s \in RoomSockets : RoomConnect(s)
    \/ \E s \in RoomSockets : JoinGame(s)
    \/ \E s \in RoomSockets : RoomDisconnect(s)
    \/ RoomTick

RoomSpec == Init /\ [][RoomNext]_vars

----------------------------------------------------------------------------
\* The route specification: the two-lobby specification with sockets that
\* press up, so that an input that is stored differs from the input a seat
\* starts with.

RouteNext == Registry({"a", "b"}, {1, 2}, RegistryInputs, PairMaxNow)

RouteSpec == Init /\ [][RouteNext]_vars

----------------------------------------------------------------------------
\* Properties.

\* The seat number lobby.players[s].playerNum of a seated socket s.
PlayerNumOf(lobby, s) == lobby.players[IndexOf(lobby.players, s)].playerNum

\* The lobbies of the registry in whose players map s is a key.
LobbiesOf(s) == {id \in DOMAIN lobbies : s \in Keys(lobbies[id])}

\* C1: in every reachable state every lobby of the registry has at most 2
\* entries in its players map (and no key twice).
AtMostTwoPlayers ==
    \A id \in DOMAIN lobbies :
        /\ Len(lobbies[id].players) <= 2
        /\ Cardinality(Keys(lobbies[id])) = Len(lobbies[id].players)

\* A third socket has just been turned away from a lobby with two players.
ThirdJoinRejected ==
    /\ lastOp = "joinLobby"
    /\ emitted = <<Msg("c", "lobbyFull", 0)>>
    /\ \E id \in DOMAIN lobbies : Keys(lobbies[id]) = {"a", "b"}

\* C2: for every lobby of the registry, in every reachable state, an interval
\* timer of the lobby is live if and only if the lobby is running: exactly
\* one timer, held in gameLoop, while running, and none, with gameLoop null,
\* while waiting or finished.  (A tick fires only from a live timer.)
TickScheduledIffRunning ==
    \A id \in DOMAIN lobbies :
        /\ lobbies[id].intervals = (IF Running(lobbies[id]) THEN 1 ELSE 0)
        /\ lobbies[id].gameLoop = Running(lobbies[id])

\* A tick has just finished a match: the lobby is finished and holds no timer.
FinishedByTick ==
    /\ lastOp = "tick"
    /\ \E id \in DOMAIN lobbies :
          /\ Finished(lobbies[id])
          /\ lobbies[id].intervals = 0
          /\ Len(lobbies[id].players) = 2

\* C3: in every reachable state each socket is a key of the players map of
\* at most one lobby of the registry.
OneLobbyPerIdentity ==
    \A s \in Sockets : Cardinality(LobbiesOf(s)) <= 1

\* C4: a socket whose disconnect has been handled is a key of no lobby's
\* players map.
DisconnectedSeatedNowhere ==
    \A s \in Sockets \ connected : LobbiesOf(s) = {}

\* C5: after every step every seated player's multiplier is within [1, 5]
\* and its streak is >= 0.
MultiplierInRange ==
    \A id \in DOMAIN lobbies :
        \A i \in 1..Len(lobbies[id].players) :
            /\ lobbies[id].players[i].multiplier >= Unit
            /\ lobbies[id].players[i].multiplier <= 5 * Unit
            /\ lobbies[id].players[i].streak >= 0

\* C6: in every reachable state any two distinct players seated in the same
\* lobby have different seat numbers.
DistinctSeatNumbers ==
    \A id \in DOMAIN lobbies :
        \A i, j \in 1..Len(lobbies[id].players) :
            i # j => lobbies[id].players[i].playerNum # lobbies[id].players[j].playerNum

\* C7: over every step, a socket seated in a lobby before and after the step
\* has the same seat number before and after.
SeatNumberNeverChanges ==
    [][\A id \in DOMAIN lobbies \cap DOMAIN lobbies' :
          \A s \in Keys(lobbies[id]) \cap Keys(lobbies'[id]) :
              PlayerNumOf(lobbies'[id], s) = PlayerNumOf(lobbies[id], s)]_vars

\* C8: a joinLobby naming an id that is not in the registry is answered with
\* lobbyNotFound and nothing else, one naming a lobby with 2 seated players
\* with lobbyFull and nothing else; either leaves the registry (every
\* lobby's players, seats and phase) and the routing map unchanged.
RejectedJoinChangesNothing ==
    [][\A s \in Sockets, id \in LobbyIds :
          /\ (JoinLobby(s, id) /\ id \notin DOMAIN lobbies)
                => /\ emitted' = <<Msg(s, "lobbyNotFound", 0)>>
                   /\ UNCHANGED <<lobbies, playerSockets>>
          /\ (JoinLobby(s, id) /\ id \in DOMAIN lobbies
                               /\ Cardinality(Keys(lobbies[id])) = 2)
                => /\ emitted' = <<Msg(s, "lobbyFull", 0)>>
                   /\ UNCHANGED <<lobbies, playerSockets>>]_vars

\* A socket seated nowhere has just been answered lobbyFull by a running lobby.
JoinAnsweredLobbyFull ==
    /\ lastOp = "joinLobby"
    /\ \E s \in Sockets :
          /\ emitted = <<Msg(s, "lobbyFull", 0)>>
          /\ LobbiesOf(s) = {}
          /\ playerSockets[s] = NoLobby
    /\ \E id \in DOMAIN lobbies : Running(lobbies[id])

\* C9: a restartGame from a seated socket while the lobby is finished leaves
\* every seated player at (200, 500) with speed 0, velocity (0, 0), score 0,
\* streak 0, multiplier 1, not boosting and with 0 boost ticks, leaves the
\* obstacle and boost-pad lists empty, and the lobby running with its timer
\* live.
RestartResetsMatch ==
    [][\A s \in Sockets, id \in LobbyIds :
          (/\ RestartGameRequest(s, id)
           /\ id \in DOMAIN lobbies
           /\ s \in Keys(lobbies[id])
           /\ Finished(lobbies[id]))
          => /\ id \in DOMAIN lobbies'
             /\ Keys(lobbies'[id]) = Keys(lobbies[id])
             /\ \A i \in 1..Len(lobbies'[id].players) :
                   /\ lobbies'[id].players[i].x = 200 * Unit
                   /\ lobbies'[id].players[i].y = 500 * Unit
                   /\ lobbies'[id].players[i].speed = 0
                   /\ lobbies'[id].players[i].velocityX = 0
                   /\ lobbies'[id].players[i].velocityY = 0
                   /\ lobbies'[id].players[i].score = 0
                   /\ lobbies'[id].players[i].streak = 0
                   /\ lobbies'[id].players[i].multiplier = Unit
                   /\ ~lobbies'[id].players[i].boosting
                   /\ lobbies'[id].players[i].boostTime = 0
             /\ lobbies'[id].obstacles = <<>>
             /\ lobbies'[id].boostPads = <<>>
             /\ Running(lobbies'[id])
             /\ lobbies'[id].intervals = 1]_vars

\* A match in which a player picked up a boost pad (its maxSpeed, which no
\* reset touches, is still the boost speed) and met an obstacle has just
\* been restarted.
RestartedAfterBoostedMatch ==
    /\ lastOp = "restartGame"
    /\ \E id \in DOMAIN lobbies :
          /\ emitted = EmitToPlayers(lobbies[id], "gameStart")
          /\ Running(lobbies[id])
          /\ lobbies[id].gameStartTime = now
          /\ \E i \in 1..Len(lobbies[id].players) :
                /\ lobbies[id].players[i].maxSpeed = BoostSpeed
                /\ lobbies[id].players[i].comboTimer > 0
                /\ lobbies[id].players[i].score = 0

\* C10: a restartGame naming a lobby that is not finished, or one the sender
\* is not seated in, and a playerInput from a socket seated nowhere, change
\* neither a lobby nor the registry nor the routing map, and emit nothing.
IgnoredRequestsChangeNothing ==
    [][\A s \in Sockets :
          /\ \A id \in LobbyIds :
                (/\ RestartGameRequest(s, id)
                 /\ ~(/\ id \in DOMAIN lobbies
                      /\ s \in Keys(lobbies[id])
                      /\ Finished(lobbies[id])))
                => /\ UNCHANGED <<lobbies, playerSockets, nextLobbyId>>
                   /\ emitted' = <<>>
          /\ \A input \in Inputs :
                (PlayerInput(s, input) /\ LobbiesOf(s) = {})
                => /\ UNCHANGED <<lobbies, playerSockets, nextLobbyId>>
                   /\ emitted' = <<>>]_vars

\* A restartGame has just been ignored while a match was running.
RestartIgnoredWhileRunning ==
    /\ lastOp = "restartGame"
    /\ emitted = <<>>
    /\ \E id \in DOMAIN lobbies : Running(lobbies[id]) /\ lobbies[id].gameStartTime = now

\* C11: over every leaveLobby or disconnect step that takes a lobby whose
\* match has started (running or finished) from 2 players to 1, the lobby
\* ends the step with no live timer and gameLoop null, waiting (gameStarted
\* and gameEnded both false), its remaining player at (200, 500) with score
\* 0, streak 0 and multiplier 1, and returnToLobby emitted to that player.
AbortReturnsToWaiting ==
    [][\A id \in DOMAIN lobbies \cap DOMAIN lobbies' :
          (/\ lastOp' \in {"leaveLobby", "disconnect"}
           /\ lobbies[id].gameStarted
           /\ Len(lobbies[id].players) = 2
           /\ Len(lobbies'[id].players) = 1)
          => /\ lobbies'[id].intervals = 0
             /\ ~lobbies'[id].gameLoop
             /\ ~lobbies'[id].gameStarted
             /\ ~lobbies'[id].gameEnded
             /\ lobbies'[id].players[1].score = 0
             /\ lobbies'[id].players[1].streak = 0
             /\ lobbies'[id].players[1].multiplier = Unit
             /\ lobbies'[id].players[1].x = StartX * Unit
             /\ lobbies'[id].players[1].y = StartY * Unit
             /\ \E k \in 1..Len(emitted') :
                   emitted'[k] = Msg(lobbies'[id].players[1].id, "returnToLobby", 0)]_vars

\* A socket has just left a match in which the other player had picked up a
\* boost pad (its combo timer, which endGame does not touch, is still
\* counting): the other player is back at the start with score 0.
LeftBoostedMatch ==
    /\ lastOp \in {"leaveLobby", "disconnect"}
    /\ \E id \in DOMAIN lobbies :
          /\ Len(lobbies[id].players) = 1
          /\ Waiting(lobbies[id])
          /\ lobbies[id].players[1].comboTimer > 0
          /\ lobbies[id].players[1].score = 0
          /\ emitted = <<Msg(lobbies[id].players[1].id, "returnToLobby", 0)>>
                          \o BroadcastLobbyUpdates

\* C12: over every leaveLobby or disconnect step after which a lobby of the
\* registry has lost its last player, that lobby is gone from the registry
\* and removePlayer left it no live timer; and after every step every lobby
\* of the registry has at least one player.
EmptiedLobbyIsDeleted ==
    [][/\ \A id \in DOMAIN lobbies :
             (/\ lastOp' \in {"leaveLobby", "disconnect"}
              /\ \E s \in Keys(lobbies[id]) :
                    DeleteKey(lobbies[id].players, s) = <<>>
              /\ (id \in DOMAIN lobbies' => lobbies'[id].players # lobbies[id].players))
             => /\ id \notin DOMAIN lobbies'
                /\ \A s \in Keys(lobbies[id]) :
                      RemovePlayer(lobbies[id], s).lobby.intervals = 0
       /\ \A id \in DOMAIN lobbies' : Len(lobbies'[id].players) >= 1]_vars

\* The last player of a lobby whose match had been played to the finish has
\* just left: the registry is empty.
LastPlayerLeft ==
    /\ lastOp \in {"leaveLobby", "disconnect"}
    /\ lobbies = <<>>
    /\ nextLobbyId > 1
    /\ now >= GameDuration
    /\ emitted = BroadcastLobbyUpdates

\* C13: over every tick of a running lobby, the lobby is finished after the
\* tick if and only if Date.now() - gameStartTime >= 30000 at the tick; so
\* with the ticks on time the finishing tick comes at least 30000 ms and
\* less than 30000 ms + one tick interval after the start of the match,
\* whether a second join or a restartGame started it.
FinishesOnFirstTickPastDuration ==
    [][\A id \in DOMAIN lobbies :
          (lastOp' = "tick" /\ now' > now /\ Running(lobbies[id]))
          => /\ Finished(lobbies'[id])
                   <=> (now' - lobbies[id].gameStartTime >= GameDuration)
             /\ Finished(lobbies'[id])
                   => (now' - lobbies[id].gameStartTime < GameDuration + TickMs)]_vars

\* A match started by a restartGame has just been finished by the tick that
\* came exactly 30000 ms after its start.
RestartedMatchFinishedOnTime ==
    /\ lastOp = "tick"
    /\ \E id \in DOMAIN lobbies :
          /\ Finished(lobbies[id])
          /\ lobbies[id].gameStartTime >= GameDuration
          /\ now - lobbies[id].gameStartTime = GameDuration

\* The gameFinished messages among the messages of the last step.
GameFinishedSent == { k \in 1..Len(emitted) : emitted[k].ev = "gameFinished" }

\* The first player, in the order of the lobby's players map, whose score is
\* the highest of the lobby.
FirstWithTopScore(lobby) ==
    lobby.players[CHOOSE i \in 1..Len(lobby.players) :
        /\ \A j \in 1..Len(lobby.players) :
              lobby.players[j].score <= lobby.players[i].score
        /\ \A j \in 1..(i - 1) : lobby.players[j].score < lobby.players[i].score]

\* C14: every gameFinished message lists every player of the lobby once, in
\* descending order of score; its winner is the first of the list and is
\* not null, is a player whose score is the highest of the lobby, and of
\* the players with that score the one that came first into the players map
\* (the earlier joiner).
WinnerIsFirstOfRanking ==
    \A k \in GameFinishedSent :
        \E id \in DOMAIN lobbies :
            /\ emitted[k].to \in Keys(lobbies[id])
            /\ Len(emitted[k].arg.players) = Len(lobbies[id].players)
            /\ { emitted[k].arg.players[i].name : i \in 1..Len(emitted[k].arg.players) }
                  = Keys(lobbies[id])
            /\ \A i, j \in 1..Len(emitted[k].arg.players) :
                  i < j =>
                    /\ emitted[k].arg.players[i].score >= emitted[k].arg.players[j].score
                    /\ lobbies[id].players[IndexOf(lobbies[id].players,
                                                    emitted[k].arg.players[i].name)].score
                         >= lobbies[id].players[IndexOf(lobbies[id].players,
                                                        emitted[k].arg.players[j].name)].score
            /\ emitted[k].arg.winner # NoWinner
            /\ emitted[k].arg.winner = emitted[k].arg.players[1]
            /\ emitted[k].arg.winner = Result(FirstWithTopScore(lobbies[id]))

\* A match has just finished with the two players on the same nonzero score:
\* the winner reported is the player that joined first.
TieWonByEarlierJoiner ==
    /\ lastOp = "tick"
    /\ GameFinishedSent # {}
    /\ \E id \in DOMAIN lobbies :
          /\ Len(lobbies[id].players) = 2
          /\ lobbies[id].players[1].score = lobbies[id].players[2].score
          /\ lobbies[id].players[1].score # 0
          /\ emitted[1].arg.winner.name = lobbies[id].players[1].id

\* The obstacles of the list `after` that carry the near-miss mark and did
\* not carry it in the list `before` (or were not in it).
NewlyAwarded(before, after) ==
    { j \in 1..Len(after) :
        /\ after[j].nearMissAwarded
        /\ ~\E i \in 1..Len(before) :
              before[i].id = after[j].id /\ before[i].nearMissAwarded }

\* C15: a near-miss award marks its obstacle and a marked obstacle is never
\* awarded again.  Over every tick of a lobby: the obstacles of the list
\* have pairwise different ids, an obstacle marked nearMissAwarded before
\* the tick is still marked after it, and the tick emits exactly one
\* nearMiss score event (one award) for each obstacle that is marked after
\* the tick and was not before.
NearMissAwardedOnce ==
    [][\A id \in DOMAIN lobbies \cap DOMAIN lobbies' :
          (lastOp' = "tick" /\ lobbies'[id] # lobbies[id])
          => /\ \A i, j \in 1..Len(lobbies'[id].obstacles) :
                   i # j => lobbies'[id].obstacles[i].id # lobbies'[id].obstacles[j].id
             /\ \A i \in 1..Len(lobbies[id].obstacles) :
                   \A j \in 1..Len(lobbies'[id].obstacles) :
                      (/\ lobbies[id].obstacles[i].id = lobbies'[id].obstacles[j].id
                       /\ lobbies[id].obstacles[i].nearMissAwarded)
                      => lobbies'[id].obstacles[j].nearMissAwarded
             /\ Cardinality({ k \in 1..Len(emitted') :
                                emitted'[k].ev = "scoreEvent:nearMiss" })
                  = Cardinality(NewlyAwarded(lobbies[id].obstacles,
                                             lobbies'[id].obstacles))]_vars

\* A tick has just left an obstacle that was awarded on an earlier tick
\* inside the near-miss range of its seat's player, and has awarded nothing.
StillInRangeAfterAward ==
    /\ lastOp = "tick"
    /\ \A k \in 1..Len(emitted) : emitted[k].ev # "scoreEvent:nearMiss"
    /\ \E id \in DOMAIN lobbies :
          /\ Running(lobbies[id])
          /\ \E i \in 1..Len(lobbies[id].players), j \in 1..Len(lobbies[id].obstacles) :
                /\ lobbies[id].obstacles[j].playerNum = lobbies[id].players[i].playerNum
                /\ lobbies[id].obstacles[j].nearMissAwarded
                /\ NearMiss(lobbies[id].players[i], lobbies[id].obstacles[j])
                /\ ~Overlaps(lobbies[id].players[i],
                             lobbies[id].obstacles[j].x, lobbies[id].obstacles[j].y,
                             ObstacleWidth * Unit, ObstacleHeight * Unit)

\* The lobby as checkCollisions finds it on a simulated tick at time t:
\* after updatePlayer, updateObstacles and updateBoostPads.  (An obstacle
\* drawn on the tick starts above the arena and overlaps no player.)
BeforeCollisions(lobby, t) ==
    UpdateBoostPads(UpdateObstacles(Spawn(UpdatePlayers(Timed(lobby, t), t).lobby,
                                          QuietRng, t), t))

\* Every player of m overlapping an obstacle of its seat number comes out of
\* the collision test with its score lower by 50 + 5 x streak, its streak 0,
\* its multiplier 1 and its near-miss counter 0, and the obstacle is in the
\* list `after` at y = 700.
CrashPenaltyExact(m, after) ==
    \A i \in 1..Len(m.players), j \in 1..Len(m.obstacles) :
        (/\ m.obstacles[j].playerNum = m.players[i].playerNum
         /\ Overlaps(m.players[i], m.obstacles[j].x, m.obstacles[j].y,
                     ObstacleWidth * Unit, ObstacleHeight * Unit))
        => /\ HitObstacle(m.players[i], m.obstacles[j]).p.score
                 = m.players[i].score
                     - (CollisionPenalty + 5 * m.players[i].streak) * Unit
           /\ HitObstacle(m.players[i], m.obstacles[j]).p.streak = 0
           /\ HitObstacle(m.players[i], m.obstacles[j]).p.multiplier = Unit
           /\ HitObstacle(m.players[i], m.obstacles[j]).p.nearMissCount = 0
           /\ \E k \in 1..Len(after) :
                 /\ after[k].id = m.obstacles[j].id
                 /\ after[k].y = CollidedY * Unit

\* No obstacle that a collision has put at y = 700 in the list `before` is
\* in the list `after`.
CollidedPruned(before, after) ==
    \A i \in 1..Len(before) :
        before[i].y = CollidedY * Unit
        => \A k \in 1..Len(after) : after[k].id # before[i].id

\* C16 as stated: over every tick of a running lobby, a player overlapping
\* an obstacle of its seat loses exactly 50 + 5 x streak with streak 0,
\* multiplier 1 and near-miss counter 0 after, and an obstacle hit on the
\* tick before is no longer in the list after this tick.
CollidedObstacleGoneNextTick ==
    [][\A id \in DOMAIN lobbies :
          (lastOp' = "tick" /\ now' > now /\ Running(lobbies[id]))
          => /\ Running(lobbies'[id])
                   => CrashPenaltyExact(BeforeCollisions(lobbies[id], now'),
                                        lobbies'[id].obstacles)
             /\ CollidedPruned(lobbies[id].obstacles, lobbies'[id].obstacles)]_vars

\* C16 as amended: the same, the obstacle being gone after the next tick
\* that simulates; the tick that finishes the match leaves the list alone.
CollidedObstacleGoneNextSimulatedTick ==
    [][\A id \in DOMAIN lobbies :
          (lastOp' = "tick" /\ now' > now /\ Running(lobbies[id])
                            /\ Running(lobbies'[id]))
          => /\ CrashPenaltyExact(BeforeCollisions(lobbies[id], now'),
                                  lobbies'[id].obstacles)
             /\ CollidedPruned(lobbies[id].obstacles, lobbies'[id].obstacles)]_vars

\* A player that had picked up a boost pad, and is still boosting, has just
\* hit an obstacle: streak 0, multiplier 1, near-miss counter 0, the
\* obstacle at y = 700.
CrashedWithStreak ==
    /\ lastOp = "tick"
    /\ \E id \in DOMAIN lobbies :
          /\ Running(lobbies[id])
          /\ \E i \in 1..Len(lobbies[id].players), j \in 1..Len(lobbies[id].obstacles) :
                /\ lobbies[id].obstacles[j].playerNum = lobbies[id].players[i].playerNum
                /\ lobbies[id].obstacles[j].y = CollidedY * Unit
                /\ lobbies[id].players[i].boosting
                /\ lobbies[id].players[i].streak = 0
                /\ lobbies[id].players[i].multiplier = Unit
                /\ lobbies[id].players[i].nearMissCount = 0

\* Every player of m overlapping an unused boost pad of its seat number
\* comes out of the pad test at time t with its score higher by
\* (50 + 10 x streak) x multiplier, and the pad comes out used.
PadAwardExact(m, t) ==
    \A i \in 1..Len(m.players), j \in 1..Len(m.boostPads) :
        (/\ m.boostPads[j].playerNum = m.players[i].playerNum
         /\ ~m.boostPads[j].used
         /\ Overlaps(m.players[i], m.boostPads[j].x, m.boostPads[j].y,
                     PadWidth * Unit, PadHeight * Unit))
        => /\ HitPad(m.players[i], m.boostPads[j], t).p.score
                 = m.players[i].score
                     + (BoostPoints + 10 * m.players[i].streak) * m.players[i].multiplier
           /\ HitPad(m.players[i], m.boostPads[j], t).pad.used

\* A pad of seat number n is used in the list `after` and was not in the
\* list `before`: the seat has picked it up in between.
PickedUp(n, before, after) ==
    \E j \in 1..Len(after) :
        /\ after[j].playerNum = n
        /\ after[j].used
        /\ ~\E i \in 1..Len(before) : before[i].id = after[j].id /\ before[i].used

\* The players of the lobby have pairwise different seat numbers.
SeatsDistinct(lobby) ==
    \A i, j \in 1..Len(lobby.players) :
        i # j => lobby.players[i].playerNum # lobby.players[j].playerNum

\* C17: over every simulated tick of a running lobby whose players have
\* different seat numbers, a player overlapping
\* an unused pad of its seat gains (50 + 10 x streak) x multiplier and the
\* pad is marked used; a player that has picked up a pad on the tick is
\* boosting with maxSpeed 15 and 180 boost ticks to go; a boosting player
\* that has picked up none has one boost tick less after the tick, and is
\* boosting with maxSpeed 15 while boost ticks remain, not boosting with
\* maxSpeed 8 once they are 0; and a player that is not boosting, with
\* maxSpeed 8, stays so until it picks up a pad.
BoostLastsBoostTicks ==
    [][\A id \in DOMAIN lobbies :
          (lastOp' = "tick" /\ now' > now /\ Running(lobbies[id])
                            /\ Running(lobbies'[id])
                            /\ SeatsDistinct(lobbies[id]))
          => /\ PadAwardExact(BeforeCollisions(lobbies[id], now'), now')
             /\ \A i \in 1..Len(lobbies[id].players) :
                   IF PickedUp(lobbies[id].players[i].playerNum,
                               lobbies[id].boostPads, lobbies'[id].boostPads)
                   THEN /\ lobbies'[id].players[i].boosting
                        /\ lobbies'[id].players[i].boostTime = BoostTicks
                        /\ lobbies'[id].players[i].maxSpeed = BoostSpeed
                   ELSE IF lobbies[id].players[i].boosting
                   THEN /\ lobbies'[id].players[i].boostTime
                              = lobbies[id].players[i].boostTime - 1
                        /\ lobbies'[id].players[i].boosting
                              = (lobbies'[id].players[i].boostTime > 0)
                        /\ lobbies'[id].players[i].maxSpeed
                              = (IF lobbies'[id].players[i].boostTime > 0
                                 THEN BoostSpeed ELSE BaseMaxSpeed)
                   ELSE lobbies[id].players[i].maxSpeed = BaseMaxSpeed
                        => /\ ~lobbies'[id].players[i].boosting
                           /\ lobbies'[id].players[i].maxSpeed = BaseMaxSpeed]_vars

\* The last step has sent socket s a gameFinished message, and every score
\* it reports is 0 (or zero is FALSE: whatever it reports).
SentGameFinished(s, zero) ==
    \E k \in GameFinishedSent :
        /\ emitted[k].to = s
        /\ Len(emitted[k].arg.players) = 2
        /\ zero => \A i \in 1..Len(emitted[k].arg.players) :
                      emitted[k].arg.players[i].score = 0

\* C18 as stated: a match of two players that send no input is running
\* until a tick comes 30000 ms or more after its start and finished from
\* that tick on, and that tick sends both players gameFinished with score 0
\* for both.
IdleMatchReportsZero ==
    \A id \in DOMAIN lobbies :
        /\ Running(lobbies[id]) => now - lobbies[id].gameStartTime < GameDuration
        /\ Finished(lobbies[id])
              => /\ now - lobbies[id].gameStartTime >= GameDuration
                 /\ lastOp = "tick"
                      => \A s \in Keys(lobbies[id]) : SentGameFinished(s, TRUE)

\* C18 as amended: the same, with score 0 for both when no obstacle and no
\* pad was drawn during the match (in the idle specification: when the
\* lists of the finished lobby are empty).
IdleMatchReportsZeroUnlessSpawned ==
    \A id \in DOMAIN lobbies :
        /\ Running(lobbies[id]) => now - lobbies[id].gameStartTime < GameDuration
        /\ Finished(lobbies[id])
              => /\ now - lobbies[id].gameStartTime >= GameDuration
                 /\ lastOp = "tick"
                      => \A s \in Keys(lobbies[id]) :
                            SentGameFinished(s, /\ lobbies[id].obstacles = <<>>
                                                /\ lobbies[id].boostPads = <<>>)

\* A match without input and without obstacles or pads has just finished:
\* both players were sent gameFinished with score 0 for both.
IdleMatchFinished ==
    /\ lastOp = "tick"
    /\ \E id \in DOMAIN lobbies :
          /\ Finished(lobbies[id])
          /\ lobbies[id].obstacles = <<>>
          /\ lobbies[id].boostPads = <<>>
          /\ Keys(lobbies[id]) = {"a", "b"}
          /\ SentGameFinished("a", TRUE)
          /\ SentGameFinished("b", TRUE)

\* C19: over every simulated tick of a match without obstacles and pads, a
\* player holding up (and not down) has a higher score after the tick than
\* before.
ScoreRisesWhileUpHeld ==
    [][\A id \in DOMAIN lobbies :
          (/\ lastOp' = "tick"
           /\ Running(lobbies[id])
           /\ Running(lobbies'[id])
           /\ lobbies'[id].obstacles = <<>>
           /\ lobbies'[id].boostPads = <<>>)
          => \A i \in 1..Len(lobbies[id].players) :
                lobbies[id].players[i].input = UpKeys
                => lobbies'[id].players[i].score > lobbies[id].players[i].score]_vars

\* C20: in every reachable state of the single-room server
\* gameState.players holds at most 2 players.
RoomAtMostTwoPlayers == Len(room.players) <= RoomMaxPlayers

\* C21: over every tick that takes a running lobby to finished, the players,
\* the obstacles and the boost pads are after the tick as they were before
\* it, and no gameState message comes after a gameFinished message among
\* the messages of the tick.
FinishingTickDoesNothingElse ==
    [][\A id \in DOMAIN lobbies :
          (/\ lastOp' = "tick"
           /\ Running(lobbies[id])
           /\ id \in DOMAIN lobbies'
           /\ Finished(lobbies'[id]))
          => /\ lobbies'[id].players = lobbies[id].players
             /\ lobbies'[id].obstacles = lobbies[id].obstacles
             /\ lobbies'[id].boostPads = lobbies[id].boostPads
             /\ \A j, k \in 1..Len(emitted') :
                   (j < k /\ emitted'[j].ev = "gameFinished")
                   => emitted'[k].ev # "gameState"]_vars

\* C22: a leaveLobby from a socket that is no key of the named lobby's
\* players map (or naming no lobby of the registry) leaves every lobby and
\* the routing map, the sender's own entry included, unchanged.
ForeignLeaveChangesNothing ==
    [][\A s \in Sockets, id \in LobbyIds :
          (/\ LeaveLobby(s, id)
           /\ (id \in DOMAIN lobbies => s \notin Keys(lobbies[id])))
          => UNCHANGED <<lobbies, playerSockets>>]_vars

\* C23: over every playerInput step, the input vector sent is afterwards
\* the input of the sender's player in every lobby in whose players map the
\* sender is a key (and the timer's updatePlayer reads it from there).
SeatedInputIsStored ==
    [][\A s \in Sockets, input \in Inputs :
          PlayerInput(s, input)
          => \A id \in LobbiesOf(s) :
                /\ id \in DOMAIN lobbies'
                /\ s \in Keys(lobbies'[id])
                /\ lobbies'[id].players[IndexOf(lobbies'[id].players, s)].input = input]_vars

\* The player as updatePlayer would see it had the last playerInput carried
\* an all-false vector.
AllFalse(p) == [p EXCEPT !.input = NoKeys]

\* C24: over every simulated tick of a running lobby, a seat whose stored
\* input is undefined (the last playerInput payload lacked the vector) is
\* updated as with all-false input: its speed-bonus timer, its position and
\* its speed before collisions are those of the all-false update, and a
\* boosting seat that picks up no pad on the tick has one boost tick less.
MissingInputSimulatedAsAllFalse ==
    [][\A id \in DOMAIN lobbies :
          (lastOp' = "tick" /\ now' > now /\ Running(lobbies[id])
                            /\ Running(lobbies'[id]))
          => \A i \in 1..Len(lobbies[id].players) :
                ~lobbies[id].players[i].input.defined
                => /\ lobbies'[id].players[i].speedBonusTimer
                         = UpdatePlayer(AllFalse(lobbies[id].players[i]), now').p.speedBonusTimer
                   /\ lobbies'[id].players[i].x
                         = UpdatePlayer(AllFalse(lobbies[id].players[i]), now').p.x
                   /\ lobbies'[id].players[i].y
                         = UpdatePlayer(AllFalse(lobbies[id].players[i]), now').p.y
                   /\ (/\ lobbies[id].players[i].boosting
                       /\ ~PickedUp(lobbies[id].players[i].playerNum,
                                    lobbies[id].boostPads, lobbies'[id].boostPads))
                      => lobbies'[id].players[i].boostTime
                            = lobbies[id].players[i].boostTime - 1]_vars

\* C25: in every reachable state a lobby with 2 seated players is running or
\* finished (gameStarted is true), also after backToLobbyFromResults: only a
\* lobby with fewer than 2 seated players is waiting.
FullLobbyIsNeverWaiting ==
    \A id \in DOMAIN lobbies :
        Len(lobbies[id].players) = MaxPlayers => lobbies[id].gameStarted

\* C26: in every reachable state every seated player that is not boosting
\* has maxSpeed 8, also after restartGame and endGame and at the start of
\* the match that follows one that ended while the player was boosting.
NotBoostingHasBaseMaxSpeed ==
    \A id \in DOMAIN lobbies :
        \A i \in 1..Len(lobbies[id].players) :
            ~lobbies[id].players[i].boosting
            => lobbies[id].players[i].maxSpeed = BaseMaxSpeed

\* The lobby as updateObstacles finds it on a simulated tick at time t: after
\* the players' updates.
BeforeObstacles(lobby, t) == UpdatePlayers(Timed(lobby, t), t).lobby

\* C27: over every simulated tick of a running lobby whose players have
\* different seat numbers, a player whose obstacles in the list have all
\* collided with it (they are at y = 700) is awarded no survival points when
\* they are pruned, and its streak is not higher after the tick unless it
\* picks up a pad on the tick.
CollidedObstacleAwardsNothing ==
    [][\A id \in DOMAIN lobbies :
          (lastOp' = "tick" /\ now' > now /\ Running(lobbies[id])
                            /\ Running(lobbies'[id])
                            /\ SeatsDistinct(lobbies[id]))
          => \A i \in 1..Len(lobbies[id].players) :
                (/\ \E j \in 1..Len(lobbies[id].obstacles) :
                       lobbies[id].obstacles[j].playerNum
                           = lobbies[id].players[i].playerNum
                 /\ \A j \in 1..Len(lobbies[id].obstacles) :
                       lobbies[id].obstacles[j].playerNum
                           = lobbies[id].players[i].playerNum
                       => lobbies[id].obstacles[j].y = CollidedY * Unit)
                => /\ UpdateObstacles(BeforeObstacles(lobbies[id], now'), now')
                          .players[i].score
                         = BeforeObstacles(lobbies[id], now').players[i].score
                   /\ ~PickedUp(lobbies[id].players[i].playerNum,
                                lobbies[id].boostPads, lobbies'[id].boostPads)
                      => lobbies'[id].players[i].streak
                            <= lobbies[id].players[i].streak]_vars

\* C28: among the messages a handler sends, the joinedLobby message to an
\* identity comes before every gameStart message to the same identity: the
\* joiner whose arrival starts the match is told that it joined before it
\* is told that the match starts.
JoinedLobbyBeforeGameStart ==
    \A j, k \in 1..Len(emitted) :
        (/\ emitted[j].ev = "joinedLobby"
         /\ emitted[k].ev = "gameStart"
         /\ emitted[j].to = emitted[k].to)
        => j < k

\* C29: in every reachable state of the single-room server at most one
\* interval of startGameLoop is active.
RoomAtMostOneGameLoop == room.intervals <= 1

====
